---- MODULE Spec2Model ----
(***************************************************************************)
(* Model of coordinate_parser/parser.py: the free-form coordinate parser   *)
(* (parse_coordinate), the range validator (_validate_coordinate), the     *)
(* combiner (to_dec_deg), the UTM grid parser (parse_utm_coordinate) and   *)
(* the UTM transform (utm_to_latlon).                                      *)
(*                                                                         *)
(* Text is a sequence of characters, each character a one-element string   *)
(* atom.  Characters outside ASCII are named: "deg" is the degree mark,    *)
(* "ndash" the en dash, "dq" the double quote, "prime" the prime mark,     *)
(* "tab" a tabulator, "CY_ES"/"cy_es" (and YU, VE, ZE) the Cyrillic        *)
(* direction letters in upper/lower case.                                  *)
(*                                                                         *)
(* Angles are exact fixed-point numbers counted in units of 1/360000       *)
(* degree (a hundredth of an arc second): a numeric field with up to two   *)
(* fractional digits, divided by 60 or 3600, is an integer number of       *)
(* units, so degrees + minutes/60 + seconds/3600 is computed exactly.  A   *)
(* text whose fields have p fractional digits more than two is computed in *)
(* units of 10^-p/360000 degree, and the Decimal that is returned keeps    *)
(* this exponent (field exp of the outcome, 0 for the usual texts).        *)
(*                                                                         *)
(* An exception message is the sequence of its words; an interpolated      *)
(* value is one placeholder word in angle brackets.  Python's substring    *)
(* test on a message is the test for a contiguous run of words.            *)
(***************************************************************************)
EXTENDS Integers, Sequences, FiniteSets, TLC

VARIABLES
    pc,           \* "call" before the operation ran, "done" after it
    fn,           \* the public operation the caller invokes
    string,       \* parse_coordinate's first argument (tagged: none/num/str/other)
    coord_type,   \* parse_coordinate's coord_type argument
    validate,     \* the validate flag of the call
    utm_string,   \* parse_utm_coordinate's text argument
    zone_number,  \* utm_to_latlon's arguments
    zone_letter,
    easting,
    northing,
    args,         \* to_dec_deg's positional arguments, in hundredths
    origin,       \* the fields an utm_string was written from (caller's knowledge)
    result,       \* the outcome of the call: a value, absent (None) or a raised error
    reparsed      \* the outcome of parse_coordinate(str(result)), a caller's second call

vars == <<pc, fn, string, coord_type, validate, utm_string, zone_number,
          zone_letter, easting, northing, args, origin, result, reparsed>>

---------------------------------------------------------------------------
(* Outcomes of a call *)

NoResult == [tag |-> "none", val |-> <<>>, exp |-> 0, exc |-> "", msg |-> <<>>]
Absent == [tag |-> "absent", val |-> <<>>, exp |-> 0, exc |-> "", msg |-> <<>>]
Value(v) == [tag |-> "value", val |-> <<v>>, exp |-> 0, exc |-> "", msg |-> <<>>]
Pair(lat, lon) ==
    [tag |-> "value", val |-> <<lat, lon>>, exp |-> 0, exc |-> "", msg |-> <<>>]
Raise(exc, msg) == [tag |-> "error", val |-> <<>>, exp |-> 0, exc |-> exc, msg |-> msg]

\* Decimal(str(x)) of the float x = n * 10^-p units: the same number, written
\* without trailing zeros
RECURSIVE Decimal(_, _)
Decimal(n, p) ==
    IF p > 0 /\ n % 10 = 0 THEN Decimal(n \div 10, p - 1)
    ELSE [tag |-> "value", val |-> <<n>>, exp |-> p, exc |-> "", msg |-> <<>>]

---------------------------------------------------------------------------
(* Characters and Python's str methods *)

DigitChars == <<"0", "1", "2", "3", "4", "5", "6", "7", "8", "9">>
DigitSet == {DigitChars[i] : i \in 1..10}
DigitVal(c) == (CHOOSE i \in 1..10 : DigitChars[i] = c) - 1

UpperChars == <<"A", "B", "C", "D", "E", "F", "G", "H", "I", "J", "K", "L", "M",
                "N", "O", "P", "Q", "R", "S", "T", "U", "V", "W", "X", "Y", "Z",
                "CY_ES", "CY_YU", "CY_VE", "CY_ZE">>
LowerChars == <<"a", "b", "c", "d", "e", "f", "g", "h", "i", "j", "k", "l", "m",
                "n", "o", "p", "q", "r", "s", "t", "u", "v", "w", "x", "y", "z",
                "cy_es", "cy_yu", "cy_ve", "cy_ze">>
AsciiUpper == {UpperChars[i] : i \in 1..26}
SpaceSet == {" ", "tab"}

LowerChar(c) ==
    IF \E i \in 1..Len(UpperChars) : UpperChars[i] = c
    THEN LowerChars[CHOOSE i \in 1..Len(UpperChars) : UpperChars[i] = c]
    ELSE c
UpperChar(c) ==
    IF \E i \in 1..Len(LowerChars) : LowerChars[i] = c
    THEN UpperChars[CHOOSE i \in 1..Len(LowerChars) : LowerChars[i] = c]
    ELSE c
Lower(s) == [i \in 1..Len(s) |-> LowerChar(s[i])]
Upper(s) == [i \in 1..Len(s) |-> UpperChar(s[i])]

\* s[i], or the empty atom past either end of the text
At(s, i) == IF i \in 1..Len(s) THEN s[i] ELSE ""

\* str.strip(): leading and trailing whitespace removed
\* mutant: only blanks are stripped, a tabulator is kept
StripBlanksOnly(s) ==
    IF \A i \in 1..Len(s) : s[i] = " " THEN <<>>
    ELSE LET a == CHOOSE i \in 1..Len(s) :
                     s[i] # " " /\ \A k \in 1..(i - 1) : s[k] = " "
             b == CHOOSE i \in 1..Len(s) :
                     s[i] # " " /\ \A k \in (i + 1)..Len(s) : s[k] = " "
         IN SubSeq(s, a, b)

Strip(s) ==
    IF \A i \in 1..Len(s) : s[i] \in SpaceSet THEN <<>>
    ELSE LET a == CHOOSE i \in 1..Len(s) :
                     s[i] \notin SpaceSet /\ \A k \in 1..(i - 1) : s[k] \in SpaceSet
             b == CHOOSE i \in 1..Len(s) :
                     s[i] \notin SpaceSet /\ \A k \in (i + 1)..Len(s) : s[k] \in SpaceSet
         IN SubSeq(s, a, b)

StartsWith(s, p) == Len(p) <= Len(s) /\ SubSeq(s, 1, Len(p)) = p

\* Python's "p in s" for str (and for a message: a contiguous run of words)
Contains(s, p) ==
    \E i \in 1..(Len(s) - Len(p) + 1) : SubSeq(s, i, i + Len(p) - 1) = p

\* str.replace(old, new): every non-overlapping occurrence, left to right
RECURSIVE Replace(_, _, _)
Replace(s, old, new) ==
    IF Len(s) < Len(old) THEN s
    ELSE IF StartsWith(s, old)
         THEN new \o Replace(SubSeq(s, Len(old) + 1, Len(s)), old, new)
         ELSE <<Head(s)>> \o Replace(Tail(s), old, new)

\* the number of consecutive characters of set from position i, at most hi
Run(s, i, set, hi) ==
    CHOOSE n \in 0..hi :
        /\ \A k \in 0..(n - 1) : At(s, i + k) \in set
        /\ (n = hi \/ At(s, i + n) \notin set)

\* int() of a digit string
RECURSIVE DigitsToInt(_)
DigitsToInt(ds) ==
    IF ds = <<>> THEN 0
    ELSE 10 * DigitsToInt(SubSeq(ds, 1, Len(ds) - 1)) + DigitVal(ds[Len(ds)])

RECURSIVE Pow10(_)
Pow10(k) == IF k = 0 THEN 1 ELSE 10 * Pow10(k - 1)

\* the fractional digits a numeric field "ddd", "ddd." or "ddd.ddd" has
\* beyond two
ExtraPlaces(field) ==
    LET n == Run(field, 1, DigitSet, Len(field))
        digits == IF n < Len(field) THEN Len(field) - n - 1 ELSE 0
    IN IF digits > 2 THEN digits - 2 ELSE 0

\* the precision that holds every one of the fields exactly
RECURSIVE Places(_)
Places(fields) ==
    IF fields = <<>> THEN 0
    ELSE LET h == ExtraPlaces(Head(fields))
             t == Places(Tail(fields))
         IN IF h > t THEN h ELSE t

\* float() of a numeric field, in units of 10^-p hundredths (p = 0: in
\* hundredths); exact for a field of up to 2 + p fractional digits
ToFloat(field, p) ==
    LET n == Run(field, 1, DigitSet, Len(field))
        frac == SubSeq(field, n + 2, Len(field))
        padded == SubSeq(frac \o [i \in 1..(2 + p) |-> "0"], 1, 2 + p)
    IN DigitsToInt(SubSeq(field, 1, n)) * Pow10(2 + p) + DigitsToInt(padded)

---------------------------------------------------------------------------
(* Regular expressions: a pattern is a sequence of items, each a character *)
(* class repeated lo..hi times (hi < 0: no upper limit) and the capture    *)
(* group g it belongs to (0: none); the pattern is anchored at both ends.  *)
(* Every item of the                                                       *)
(* patterns below is followed by a class disjoint from its own, so the     *)
(* greedy match is the only match and no backtracking is needed.           *)

Item(set, lo, hi, g) == [set |-> set, lo |-> lo, hi |-> hi, g |-> g]
One(set, g) == <<Item(set, 1, 1, g)>>
Opt(set, g) == <<Item(set, 0, 1, g)>>
Plus(set, g) == <<Item(set, 1, -1, g)>>
Star(set, g) == <<Item(set, 0, -1, g)>>
Rep(set, lo, hi, g) == <<Item(set, lo, hi, g)>>

NoGroups == [g \in 1..4 |-> <<>>]
NoMatch == [ok |-> FALSE, groups |-> NoGroups]

RECURSIVE ReMatchFrom(_, _, _, _)
ReMatchFrom(s, i, items, groups) ==
    IF items = <<>> THEN [ok |-> i = Len(s) + 1, groups |-> groups]
    ELSE LET it == Head(items)
             n == Run(s, i, it.set, IF it.hi < 0 THEN Len(s) ELSE it.hi)
         IN IF n < it.lo THEN NoMatch
            ELSE ReMatchFrom(s, i + n, Tail(items),
                     IF it.g = 0 THEN groups
                     ELSE [groups EXCEPT ![it.g] = @ \o SubSeq(s, i, i + n - 1)])

\* re.match of (?:prefix)? followed by body and $
ReMatch(prefix, body, s) ==
    LET withPrefix == ReMatchFrom(s, 1, prefix \o body, NoGroups)
    IN IF prefix # <<>> /\ withPrefix.ok THEN withPrefix
       ELSE ReMatchFrom(s, 1, body, NoGroups)

---------------------------------------------------------------------------
(* _validate_coordinate: the range check.  Angles are in units of 1/360000 *)
(* degree.                                                                 *)

Deg(d) == d * 360000

\* -bound <= float(value) <= bound for a Decimal of n * 10^-exp units: the
\* whole units and the rest are compared, so that no product leaves the
\* integer range
Within(value, bound) ==
    LET scale == Pow10(value.exp)
        whole == value.val[1] \div scale
        rest == value.val[1] % scale
    IN /\ Deg(-bound) <= whole
       /\ whole < Deg(bound) \/ (whole = Deg(bound) /\ rest = 0)

\* mutant: latitude checked against the longitude bound
ValidateLatitudeAsLongitude(value, kind) ==
    IF value = Absent THEN Absent
    ELSE IF ~Within(value, 180)
    THEN Raise("ValueError", <<"Coordinate", "<value>", "is", "outside",
                               "valid", "range", "[-180,", "180]">>)
    ELSE value

\* value is a Decimal or None (Absent)
_validate_coordinate(value, kind) ==
    IF value = Absent THEN Absent
    ELSE IF kind = "latitude"
    THEN IF ~Within(value, 90)
         THEN Raise("ValueError", <<"Latitude", "<value>", "is", "outside",
                                    "valid", "range", "[-90,", "90]">>)
         ELSE value
    ELSE IF kind = "longitude"
    THEN IF ~Within(value, 180)
         THEN Raise("ValueError", <<"Longitude", "<value>", "is", "outside",
                                    "valid", "range", "[-180,", "180]">>)
         ELSE value
    ELSE IF ~Within(value, 180)
         THEN Raise("ValueError", <<"Coordinate", "<value>", "is", "outside",
                                    "reasonable", "range", "[-180,", "180]">>)
         ELSE value

---------------------------------------------------------------------------
(* to_dec_deg: parts are in hundredths, the sum in units of 1/360000 deg   *)

\* mutant: values after the third are ignored
ToDecDegIgnoringExtra(a) ==
    IF Len(a) = 1 THEN Value(a[1] * 3600)
    ELSE IF Len(a) = 2 THEN Value(a[1] * 3600 + a[2] * 60)
    ELSE IF Len(a) >= 3 THEN Value(a[1] * 3600 + a[2] * 60 + a[3])
    ELSE Raise("ValueError", <<"Invalid", "number", "of", "arguments">>)

\* mutant: the seconds are left out of the sum
ToDecDegWithoutSeconds(a) ==
    IF Len(a) = 1 THEN Value(a[1] * 3600)
    ELSE IF Len(a) \in {2, 3} THEN Value(a[1] * 3600 + a[2] * 60)
    ELSE Raise("ValueError", <<"Invalid", "number", "of", "arguments">>)

to_dec_deg(a) ==
    IF Len(a) = 1 THEN Value(a[1] * 3600)
    ELSE IF Len(a) = 2 THEN Value(a[1] * 3600 + a[2] * 60)
    ELSE IF Len(a) = 3 THEN Value(a[1] * 3600 + a[2] * 60 + a[3])
    ELSE Raise("ValueError", <<"Invalid", "number", "of", "arguments">>)

---------------------------------------------------------------------------
(* parse_coordinate: the maritime patterns *)

QuoteSet == {"'", "dq"}
DashSet == {"ndash", "-"}

\* (\d+\.?\d*) as capture group g
Number(g) == Plus(DigitSet, g) \o Opt({"."}, g) \o Star(DigitSet, g)

maritime_patterns == <<
    Number(1) \o One({"deg"}, 0) \o One(DashSet, 0) \o Number(2)
        \o Opt(QuoteSet, 0) \o One(AsciiUpper, 3),
    Number(1) \o One(DashSet, 0) \o Number(2) \o One(AsciiUpper, 3),
    Number(1) \o One({"deg"}, 0) \o Number(2) \o Opt(QuoteSet, 0)
        \o One(AsciiUpper, 3),
    Number(1) \o One({"deg"}, 0) \o Number(2) \o One(QuoteSet, 0) \o Number(3)
        \o One(QuoteSet, 0) \o One(AsciiUpper, 4) >>

\* len(match.groups()) of each pattern
maritime_group_count == <<3, 3, 3, 4>>

Hemispheres == {"N", "S", "E", "W"}

InvalidHemisphere ==
    Raise("ValueError", <<"Invalid", "hemisphere", "<hemisphere>,", "must", "be",
                          "N,", "S,", "E,", "or", "W">>)

\* mutant: the minutes of a degrees-minutes match are not checked
MaritimeDMUnchecked(groups, kind, val) ==
    LET p == Places(<<groups[1], groups[2]>>)
        degrees == ToFloat(groups[1], p)
        minutes == ToFloat(groups[2], p)
        hemisphere == UpperChar(groups[3][1])
        magnitude == degrees * 3600 + minutes * 60
        res == IF hemisphere \in {"S", "W"} THEN -magnitude ELSE magnitude
    IN IF hemisphere \notin Hemispheres THEN InvalidHemisphere
       ELSE IF degrees % Pow10(2 + p) # 0
       THEN Raise("ValueError", <<"Fractional", "degrees", "cannot", "be",
                                  "combined", "with", "minutes">>)
       ELSE IF val THEN _validate_coordinate(Decimal(res, p), kind)
       ELSE Decimal(res, p)

\* the branch for three groups: degrees, minutes, hemisphere
MaritimeDM(groups, kind, val) ==
    LET p == Places(<<groups[1], groups[2]>>)
        degrees == ToFloat(groups[1], p)
        minutes == ToFloat(groups[2], p)
        hemisphere == UpperChar(groups[3][1])
        magnitude == degrees * 3600 + minutes * 60
        res == IF hemisphere \in {"S", "W"} THEN -magnitude ELSE magnitude
    IN IF hemisphere \notin Hemispheres THEN InvalidHemisphere
       ELSE IF degrees % Pow10(2 + p) # 0
       THEN Raise("ValueError", <<"Fractional", "degrees", "cannot", "be",
                                  "combined", "with", "minutes">>)
       ELSE IF minutes >= 60 * Pow10(2 + p)
       THEN Raise("ValueError", <<"Minutes", "<minutes>", "must", "be", "less",
                                  "than", "60">>)
       ELSE IF val THEN _validate_coordinate(Decimal(res, p), kind)
       ELSE Decimal(res, p)

\* the branch for four groups: degrees, minutes, seconds, hemisphere
MaritimeDMS(groups, kind, val) ==
    LET p == Places(<<groups[1], groups[2], groups[3]>>)
        degrees == ToFloat(groups[1], p)
        minutes == ToFloat(groups[2], p)
        seconds == ToFloat(groups[3], p)
        hemisphere == UpperChar(groups[4][1])
        magnitude == degrees * 3600 + minutes * 60 + seconds
        res == IF hemisphere \in {"S", "W"} THEN -magnitude ELSE magnitude
    IN IF hemisphere \notin Hemispheres THEN InvalidHemisphere
       ELSE IF degrees % Pow10(2 + p) # 0
       THEN Raise("ValueError", <<"Fractional", "degrees", "cannot", "be",
                                  "combined", "with", "minutes", "and", "seconds">>)
       ELSE IF minutes >= 60 * Pow10(2 + p)
       THEN Raise("ValueError", <<"Minutes", "<minutes>", "must", "be", "less",
                                  "than", "60">>)
       ELSE IF seconds >= 60 * Pow10(2 + p)
       THEN Raise("ValueError", <<"Seconds", "<seconds>", "must", "be", "less",
                                  "than", "60">>)
       ELSE IF val THEN _validate_coordinate(Decimal(res, p), kind)
       ELSE Decimal(res, p)

\* mutant: the maritime patterns are never tried
MaritimeIndexNone(s) == 0

\* the first maritime pattern that matches s, 0 when none does
MaritimeIndex(s) ==
    IF \E k \in 1..Len(maritime_patterns) : ReMatch(<<>>, maritime_patterns[k], s).ok
    THEN CHOOSE k \in 1..Len(maritime_patterns) :
            /\ ReMatch(<<>>, maritime_patterns[k], s).ok
            /\ \A j \in 1..(k - 1) : ~ReMatch(<<>>, maritime_patterns[j], s).ok
    ELSE 0

Maritime(k, s, kind, val) ==
    LET groups == ReMatch(<<>>, maritime_patterns[k], s).groups
    IN IF maritime_group_count[k] = 3 THEN MaritimeDM(groups, kind, val)
       ELSE MaritimeDMS(groups, kind, val)

---------------------------------------------------------------------------
(* parse_coordinate: the general tokenizer *)

\* re.findall(r"\d+(?:[.,]\d+)?", s) from position i
RECURSIVE FindAll(_, _)
FindAll(s, i) ==
    IF i > Len(s) THEN <<>>
    ELSE IF s[i] \notin DigitSet THEN FindAll(s, i + 1)
    ELSE LET j == i + Run(s, i, DigitSet, Len(s))
             k == IF At(s, j) \in {".", ","} /\ At(s, j + 1) \in DigitSet
                  THEN j + 1 + Run(s, j + 1, DigitSet, Len(s))
                  ELSE j
         IN <<SubSeq(s, i, k - 1)>> \o FindAll(s, k)

\* the substitutions of direction words and Cyrillic letters
Normalise(s) ==
    LET a == Replace(s, <<"n", "o", "r", "t", "h">>, <<"n">>)
        b == Replace(a, <<"s", "o", "u", "t", "h">>, <<"s">>)
        c == Replace(b, <<"e", "a", "s", "t">>, <<"e">>)
        d == Replace(c, <<"w", "e", "s", "t">>, <<"w">>)
        e == Replace(d, <<"cy_es">>, <<"n">>)
        f == Replace(e, <<"cy_yu">>, <<"s">>)
        g == Replace(f, <<"cy_ve">>, <<"e">>)
    IN Replace(g, <<"cy_ze">>, <<"w">>)

\* mutant: only west is negative
NegativeWestOnly(s) ==
    LET trailing == IF At(s, Len(s)) = "w" THEN -1 ELSE 1
    IN IF At(s, 1) \in {"-", "w"} THEN -1 ELSE trailing

\* negative: -1 for west and south, the leading test overriding the trailing
Negative(s) ==
    LET trailing == IF At(s, Len(s)) \in {"w", "s"} THEN -1 ELSE 1
    IN IF At(s, 1) \in {"-", "w", "s"} THEN -1 ELSE trailing

\* the numeric substrings of the original text that hold '.' or ','
DecimalParts(orig_string) ==
    LET HasSeparator(part_str) == \E i \in 1..Len(part_str) : part_str[i] \in {".", ","}
    IN SelectSeq(FindAll(orig_string, 1), HasSeparator)

\* mutant: the test for exactly two parts stands on its own
DecimalFieldsRejectedForTwo(parts, orig_string) ==
    Len(parts) = 2 /\ Len(DecimalParts(orig_string)) > 1

\* whether the multiple-decimal-fields rule fires: the test for exactly two
\* parts sits inside the branch for three or more parts
DecimalFieldsRejected(parts, orig_string) ==
    Len(parts) >= 3 /\ (Len(parts) = 2 /\ Len(DecimalParts(orig_string)) > 1)

\* the body of the try block
TryBody(orig_string, kind, val) ==
    LET s == Normalise(Lower(Strip(orig_string)))
        negative == Negative(s)
        tokens == FindAll(s, 1)
        p == Places(tokens)
        parts == [i \in 1..Len(tokens) |->
                     ToFloat(Replace(tokens[i], <<",">>, <<".">>), p)]
        combined == to_dec_deg(parts)
        res == negative * combined.val[1]
    IN IF tokens = <<>> THEN Raise("ValueError", <<>>)
       ELSE IF Len(parts) >= 2 /\ parts[2] >= 60 * Pow10(2 + p)
       THEN Raise("ValueError", <<"Minutes", "must", "be", "less", "than", "60">>)
       ELSE IF Len(parts) >= 3 /\ parts[3] >= 60 * Pow10(2 + p)
       THEN Raise("ValueError", <<"Seconds", "must", "be", "less", "than", "60">>)
       ELSE IF DecimalFieldsRejected(parts, orig_string)
       THEN Raise("ValueError", <<"Decimal", "values", "in", "multiple", "fields",
                                  "not", "allowed", "for", "degrees-minutes", "format">>)
       ELSE IF combined.tag = "error" THEN combined
       ELSE IF val THEN _validate_coordinate(Decimal(res, p), kind)
       ELSE Decimal(res, p)

\* the phrases whose messages the except clause raises again unchanged
ReraisedPhrases == {
    <<"outside", "valid", "range">>,
    <<"must", "be", "less", "than">>,
    <<"Decimal", "values", "in", "multiple", "fields">>,
    <<"Invalid", "hemisphere">>,
    <<"Fractional", "degrees", "cannot", "be", "combined">> }

NotValidString ==
    Raise("ValueError", <<"<orig_string>", "is", "not", "a", "valid",
                          "coordinate", "string">>)

\* except ValueError as e
ExceptClause(r) ==
    IF r.tag = "error" /\ r.exc = "ValueError"
    THEN IF \E p \in ReraisedPhrases : Contains(r.msg, p) THEN r ELSE NotValidString
    ELSE r

General(orig_string, kind, val) == ExceptClause(TryBody(orig_string, kind, val))

---------------------------------------------------------------------------
(* parse_coordinate.  The argument is tagged with its Python type: "none", *)
(* "num" (int, float or Decimal, n in hundredths), "bool", "str" (s the    *)
(* text) or "other".                                                       *)

NoneArg == [t |-> "none", n |-> 0, s |-> <<>>]
NumArg(n) == [t |-> "num", n |-> n, s |-> <<>>]
BoolArg == [t |-> "bool", n |-> 1, s |-> <<>>]
StrArg(s) == [t |-> "str", n |-> 0, s |-> s]
OtherArg == [t |-> "other", n |-> 0, s |-> <<>>]

parse_coordinate(arg, kind, val) ==
    IF arg.t = "none" THEN Absent
    ELSE IF arg.t = "bool"
    THEN Raise("InvalidOperation", <<"<class", "'decimal.ConversionSyntax'>">>)
    ELSE IF arg.t = "num"
    THEN IF val THEN _validate_coordinate(Value(arg.n * 3600), kind)
         ELSE Value(arg.n * 3600)
    ELSE IF arg.t # "str"
    THEN Raise("ValueError", <<"Expected", "string,", "float,", "or", "Decimal,",
                               "got", "<type>">>)
    ELSE LET s == Strip(arg.s)
             k == MaritimeIndex(s)
         IN IF s = <<>> THEN Absent
            ELSE IF k # 0 THEN Maritime(k, s, kind, val)
            ELSE General(arg.s, kind, val)

---------------------------------------------------------------------------
(* utm_to_latlon *)

valid_letters == <<"C", "D", "E", "F", "G", "H", "J", "K", "L", "M", "N", "P",
                   "Q", "R", "S", "T", "U", "V", "W">>

Ord(c) == CHOOSE i \in 1..Len(UpperChars) : UpperChars[i] = c

\* Python's a >= b for str: lexicographic on the characters
RECURSIVE StrGE(_, _)
StrGE(a, b) ==
    IF b = <<>> THEN TRUE
    ELSE IF a = <<>> THEN FALSE
    ELSE IF Head(a) # Head(b) THEN Ord(Head(a)) > Ord(Head(b))
    ELSE StrGE(Tail(a), Tail(b))

\* The inverse Transverse Mercator series in floating point, tabulated at the
\* projected points the model uses: the latitude and the longitude's offset
\* from the central meridian, both rounded to units of 1/360000 degree.
InverseSeries(northern, e, n) ==
    CASE  northern /\ e = 391545  /\ n = 5819698  -> [lat |-> 18905973,  dlon |-> -575398]
      []  northern /\ e = 391545  /\ n = 25000000 -> [lat |-> 81065438,  dlon |-> 496958]
      []  northern /\ e = 9999999 /\ n = 5819698  -> [lat |-> -94677243, dlon |-> 219508554]
      []  northern /\ e = 9999999 /\ n = 25000000 -> [lat |-> 30091864,  dlon |-> -98039058]
      [] ~northern /\ e = 391545  /\ n = 5819698  -> [lat |-> -13594902, dlon |-> -443276]
      [] ~northern /\ e = 391545  /\ n = 25000000 -> [lat |-> 48560934,  dlon |-> 496321]
      [] ~northern /\ e = 9999999 /\ n = 5819698  -> [lat |-> 13603512,  dlon |-> 55649098]
      [] ~northern /\ e = 9999999 /\ n = 25000000 -> [lat |-> 99179512,  dlon |-> -97378542]

utm_to_latlon(zn, zl, e, n, val) ==
    LET letter == Upper(zl)
        northern == StrGE(letter, <<"N">>)
        lon_origin_deg == (zn - 1) * 6 - 180 + 3
        series == InverseSeries(northern, e, n)
        lat == series.lat
        lon == Deg(lon_origin_deg) + series.dlon
        lat_decimal == _validate_coordinate(Value(lat), "latitude")
        lon_decimal == _validate_coordinate(Value(lon), "longitude")
    IN IF ~(1 <= zn /\ zn <= 60)
       THEN Raise("ValueError", <<"UTM", "zone", "number", "<zone_number>", "must",
                                  "be", "between", "1", "and", "60">>)
       ELSE IF ~Contains(valid_letters, letter)
       THEN Raise("ValueError", <<"UTM", "zone", "letter", "<zone_letter>", "is",
                                  "invalid">>)
       ELSE IF val
       THEN IF lat_decimal.tag = "error" THEN lat_decimal
            ELSE IF lon_decimal.tag = "error" THEN lon_decimal
            ELSE IF lat_decimal = Absent \/ lon_decimal = Absent
            THEN Raise("ValueError", <<"Converted", "coordinates", "are",
                                       "outside", "valid", "ranges">>)
            ELSE Pair(lat_decimal.val[1], lon_decimal.val[1])
       ELSE Pair(lat, lon)

---------------------------------------------------------------------------
(* parse_utm_coordinate *)

zone_letters == {valid_letters[i] : i \in 1..Len(valid_letters)}

\* (?:ZONE\s+)?
ZonePrefix ==
    One({"Z"}, 0) \o One({"O"}, 0) \o One({"N"}, 0) \o One({"E"}, 0) \o Plus(SpaceSet, 0)

pattern1 ==
    Rep(DigitSet, 1, 2, 1) \o One(zone_letters, 2) \o Plus(SpaceSet, 0)
        \o Rep(DigitSet, 6, 7, 3) \o Plus(SpaceSet, 0) \o Rep(DigitSet, 7, 8, 4)
pattern2 ==
    Rep(DigitSet, 1, 2, 1) \o One(zone_letters, 2) \o Rep(DigitSet, 6, 7, 3)
        \o One({"E"}, 0) \o Rep(DigitSet, 7, 8, 4) \o One({"N"}, 0)
pattern3 ==
    Rep(DigitSet, 1, 2, 1) \o Plus(SpaceSet, 0) \o One(zone_letters, 2)
        \o Plus(SpaceSet, 0) \o Rep(DigitSet, 6, 7, 3) \o Plus(SpaceSet, 0)
        \o Rep(DigitSet, 7, 8, 4)

\* the patterns in the order the loop tries them, each with its optional prefix
utm_patterns == << [prefix |-> ZonePrefix, body |-> pattern1],
                   [prefix |-> <<>>, body |-> pattern2],
                   [prefix |-> ZonePrefix, body |-> pattern3] >>

UtmMatch(k, s) == ReMatch(utm_patterns[k].prefix, utm_patterns[k].body, s)

\* the first pattern that matches s, 0 when none does
UtmIndex(s) ==
    IF \E k \in 1..Len(utm_patterns) : UtmMatch(k, s).ok
    THEN CHOOSE k \in 1..Len(utm_patterns) :
            UtmMatch(k, s).ok /\ \A j \in 1..(k - 1) : ~UtmMatch(j, s).ok
    ELSE 0

\* mutant: the transform's error is not caught
CatchNothing(r) == r

\* try: return utm_to_latlon(...) except ValueError: return None
CatchValueError(r) == IF r.tag = "error" /\ r.exc = "ValueError" THEN Absent ELSE r

\* mutant: the text is not upper-cased before matching
ParseUtmCaseSensitive(text, val) ==
    LET s == Strip(text)
        k == UtmIndex(s)
        groups == UtmMatch(k, s).groups
    IN IF k = 0 THEN Absent
       ELSE CatchValueError(
                utm_to_latlon(DigitsToInt(groups[1]), groups[2],
                              DigitsToInt(groups[3]), DigitsToInt(groups[4]), val))

parse_utm_coordinate(text, val) ==
    LET s == Upper(Strip(text))
        k == UtmIndex(s)
        groups == UtmMatch(k, s).groups
    IN IF k = 0 THEN Absent
       ELSE CatchValueError(
                utm_to_latlon(DigitsToInt(groups[1]), groups[2],
                              DigitsToInt(groups[3]), DigitsToInt(groups[4]), val))

---------------------------------------------------------------------------
(* parse_utm_coordinate_single *)

\* coord_type.lower() for the spellings a caller passes
LowerKind(kind) ==
    CASE kind = "LONGITUDE" -> "longitude"
      [] kind = "Latitude" -> "latitude"
      [] OTHER -> kind

\* mutant: the latitude is returned whatever axis is asked for
SingleAlwaysLatitude(text, kind, val) ==
    LET r == parse_utm_coordinate(text, val)
    IN IF r = Absent THEN Absent ELSE Value(r.val[1])

parse_utm_coordinate_single(text, kind, val) ==
    LET r == parse_utm_coordinate(text, val)
        lat == r.val[1]
        lon == r.val[2]
    IN IF r = Absent THEN Absent
       ELSE IF LowerKind(kind) = "longitude" THEN Value(lon)
       ELSE Value(lat)

---------------------------------------------------------------------------
(* The texts handed to parse_coordinate: numeric fields written in one of  *)
(* the notations of the module's documentation, with a hemisphere letter.  *)

MaxFields == 3

Nums == { <<"4", "0">>, <<"4", "0", ".", "5">>, <<"7", ",", "5">>,
          <<"9", "5">>, <<"1", "8", "5">> }

FieldSeqs == UNION {[1..k -> Nums] : k \in 1..MaxFields}

\* more fields than degrees, minutes and seconds
LongNums == { <<"4", "0">>, <<"7", ",", "5">>, <<"9", "5">> }
LongFieldSeqs == UNION {[1..k -> LongNums] : k \in (MaxFields + 1)..(MaxFields + 2)}

\* fields followed by unit letters, with a direction word or without
UnitFieldSeqs == UNION {[1..k -> LongNums] : k \in 1..MaxFields}
UnitHemiChoices == {<<>>, <<"s", "o", "u", "t", "h">>, <<"n", "o", "r", "t", "h">>}

Shapes == {"plain", "minus", "lead", "dms", "mar_dash_deg", "mar_dash",
           "mar_deg", "mar_deg_bare"}
MaritimeShapes == {"mar_dash_deg", "mar_dash", "mar_deg", "mar_deg_bare"}

HemiChoices == {<<>>} \cup {<<c>> : c \in {"N", "S", "E", "W", "X",
                                           "n", "w", "x"}}

\* the degree, minute and second marks
UnitMark(i) ==
    IF i = 1 THEN <<"deg">> ELSE IF i = 2 THEN <<"'">>
    ELSE IF i = 3 THEN <<"dq">> ELSE <<" ">>

\* the unit letters of the verbose notation: 15d 55m 20s
UnitLetter(i) ==
    IF i = 1 THEN <<"d">> ELSE IF i = 2 THEN <<"m">>
    ELSE IF i = 3 THEN <<"s">> ELSE <<>>

\* what follows field i of a text written in the shape
Mark(shape, i, last) ==
    CASE shape \in {"plain", "minus", "lead"} -> IF last THEN <<>> ELSE <<" ">>
      [] shape = "dms" -> UnitMark(i) \o (IF last THEN <<>> ELSE <<" ">>)
      [] shape = "units" -> UnitLetter(i) \o (IF last THEN <<>> ELSE <<" ">>)
      [] shape = "mar_dash_deg" -> IF i = 1 THEN <<"deg", "ndash">> ELSE UnitMark(i)
      [] shape = "mar_dash" -> IF last THEN <<>> ELSE <<"-">>
      [] shape = "mar_deg" -> UnitMark(i)
      [] shape = "mar_deg_bare" -> IF last THEN <<>> ELSE UnitMark(i)

RECURSIVE Fields(_, _, _)
Fields(shape, fields, i) ==
    IF i > Len(fields) THEN <<>>
    ELSE fields[i] \o Mark(shape, i, i = Len(fields)) \o Fields(shape, fields, i + 1)

Render(shape, fields, hemi) ==
    LET body == Fields(shape, fields, 1)
        spaced == IF hemi = <<>> THEN <<>> ELSE <<" ">> \o hemi
    IN CASE shape \in {"plain", "dms", "units"} -> body \o spaced
         [] shape = "minus" -> <<"-">> \o body \o spaced
         [] shape = "lead" -> hemi \o <<" ">> \o body
         [] shape \in MaritimeShapes -> body \o hemi

NoOrigin == [shape |-> "none", fields |-> <<>>, hemi |-> <<>>]

\* texts outside the notations: blank, no digits, direction words, Cyrillic
OtherTexts == {
    <<>>, <<" ">>, <<" ", "tab">>, <<"x">>, <<"N">>,
    <<" ", "4", "0", " ">>,
    <<"4", "0", " ", "N", "o", "r", "t", "h">>,
    <<"4", "0", " ", "s", "o", "u", "t", "h">>,
    <<"4", "0", " ", "W", "e", "s", "t">>,
    <<"4", "0", " ", "e", "a", "s", "t">>,
    <<"4", "0", " ", "CY_ZE">>, <<"4", "0", " ", "cy_yu">>,
    <<"4", "0", " ", "cy_es">>, <<"4", "0", " ", "CY_VE">> }

\* arguments that are not text: None, numbers (in hundredths), a bool, a list
OtherArgs == {NoneArg, OtherArg, BoolArg,
              NumArg(4500), NumArg(2343), NumArg(9500), NumArg(-9500),
              NumArg(18500), NumArg(-18550)}

Kinds == {"latitude", "longitude", "coordinate"}

InitIdle ==
    /\ coord_type = "coordinate"
    /\ validate = TRUE
    /\ utm_string = <<>>
    /\ zone_number = 0
    /\ zone_letter = <<>>
    /\ easting = 0
    /\ northing = 0
    /\ args = <<>>
    /\ result = NoResult
    /\ reparsed = NoResult

InitParse ==
    /\ pc = "call"
    /\ fn = "parse_coordinate"
    /\ \/ \E shape \in Shapes, fields \in FieldSeqs, hemi \in HemiChoices :
            /\ string = StrArg(Render(shape, fields, hemi))
            /\ origin = [shape |-> shape, fields |-> fields, hemi |-> hemi]
       \/ \E fields \in LongFieldSeqs :
            /\ string = StrArg(Render("plain", fields, <<>>))
            /\ origin = [shape |-> "plain", fields |-> fields, hemi |-> <<>>]
       \/ \E fields \in UnitFieldSeqs, hemi \in UnitHemiChoices :
            /\ string = StrArg(Render("units", fields, hemi))
            /\ origin = [shape |-> "units", fields |-> fields, hemi |-> hemi]
       \/ /\ string \in OtherArgs \cup {StrArg(t) : t \in OtherTexts}
          /\ origin = NoOrigin
    /\ InitIdle

\* the caller invokes parse_coordinate(string, coord_type, validate)
ParseCoordinate ==
    /\ pc = "call"
    /\ fn = "parse_coordinate"
    /\ \E kind \in Kinds, val \in BOOLEAN :
          /\ coord_type' = kind
          /\ validate' = val
          /\ result' = parse_coordinate(string, kind, val)
    /\ pc' = "done"
    /\ UNCHANGED <<fn, string, utm_string, zone_number, zone_letter, easting,
                   northing, args, origin, reparsed>>

NextParse == ParseCoordinate

SpecParse == InitParse /\ [][NextParse]_vars

---------------------------------------------------------------------------
(* The texts handed to parse_utm_coordinate: a grid reference written from *)
(* its fields in one of the three layouts, or with a defect that leaves no *)
(* layout.  The projected points are those of InverseSeries.               *)

Zones == {0, 1, 33, 60, 61}
Letters == {"C", "M", "N", "W", "I", "X"}
Eastings == {391545, 9999999}
Northings == {5819698, 25000000}
Defects == {"short_easting", "short_northing", "long_northing", "truncated",
            "junk", "zone3", "prefix_glued"}

\* n written with width digits, zero padded
IntToDigits(n, width) ==
    [i \in 1..width |-> DigitChars[((n \div Pow10(width - i)) % 10) + 1]]

CleanOrigins ==
    {o \in [layout : 1..3, prefix : BOOLEAN, zone : Zones, zwidth : 1..2,
            letter : Letters, e : Eastings, ewidth : 6..7, n : Northings,
            nwidth : 7..8, lower : BOOLEAN, loose : BOOLEAN, defect : {"none"}] :
        o.zone < Pow10(o.zwidth) /\ o.e < Pow10(o.ewidth) /\ o.n < Pow10(o.nwidth)}

BaseOrigin ==
    [layout |-> 1, prefix |-> FALSE, zone |-> 33, zwidth |-> 2, letter |-> "N",
     e |-> 391545, ewidth |-> 6, n |-> 5819698, nwidth |-> 7, lower |-> FALSE,
     loose |-> FALSE, defect |-> "none"]

DefectOrigins ==
    {[BaseOrigin EXCEPT !.layout = l, !.defect = d] : l \in 1..3, d \in Defects}

UtmRender(o) ==
    LET ws == IF o.loose THEN <<"tab", " ">> ELSE <<" ">>
        pad == IF o.loose THEN <<" ">> ELSE <<>>
        pre == IF o.defect = "prefix_glued" THEN <<"Z", "o", "n", "e">>
               ELSE IF o.prefix THEN <<"Z", "o", "n", "e">> \o ws
               ELSE <<>>
        z == IF o.defect = "zone3" THEN IntToDigits(o.zone, 3)
             ELSE IntToDigits(o.zone, o.zwidth)
        e == IF o.defect = "short_easting" THEN IntToDigits(o.e % Pow10(5), 5)
             ELSE IntToDigits(o.e, o.ewidth)
        n == IF o.defect = "short_northing" THEN IntToDigits(o.n % Pow10(6), 6)
             ELSE IF o.defect = "long_northing" THEN IntToDigits(o.n, 9)
             ELSE IntToDigits(o.n, o.nwidth)
        core == CASE o.layout = 1 -> z \o <<o.letter>> \o ws \o e \o ws \o n
                  [] o.layout = 2 -> z \o <<o.letter>> \o e \o <<"E">> \o n \o <<"N">>
                  [] o.layout = 3 -> z \o ws \o <<o.letter>> \o ws \o e \o ws \o n
        cut == IF o.defect = "truncated" THEN SubSeq(core, 1, Len(core) - 1)
               ELSE IF o.defect = "junk" THEN core \o <<"X">>
               ELSE core
        text == pad \o pre \o cut \o pad
    IN IF o.lower THEN Lower(text) ELSE text

\* zone letter arguments of a direct call: one letter, none, several
LetterStrings == {
    <<>>, <<"N">>, <<"n">>, <<"C">>, <<"k">>, <<"W">>, <<"B">>, <<"I">>, <<"O">>,
    <<"X">>, <<"Z">>, <<"C", "D">>, <<"n", "p">>, <<"N", "C">>, <<"N", "N">> }

\* the texts and the axes of the calls of parse_utm_coordinate_single
SingleOrigins == {o \in CleanOrigins \cup DefectOrigins : ~o.loose /\ o.zwidth = 2}
SingleKinds == {"latitude", "longitude", "LONGITUDE", "Latitude", "coordinate"}

InitUtm ==
    /\ pc = "call"
    /\ string = NoneArg
    /\ coord_type = "coordinate"
    /\ validate = TRUE
    /\ args = <<>>
    /\ result = NoResult
    /\ reparsed = NoResult
    /\ \/ /\ fn = "parse_utm_coordinate"
          /\ origin \in CleanOrigins \cup DefectOrigins
          /\ utm_string = UtmRender(origin)
          /\ zone_number = 0
          /\ zone_letter = <<>>
          /\ easting = 0
          /\ northing = 0
       \/ /\ fn = "parse_utm_coordinate_single"
          /\ origin \in SingleOrigins
          /\ utm_string = UtmRender(origin)
          /\ zone_number = 0
          /\ zone_letter = <<>>
          /\ easting = 0
          /\ northing = 0
       \/ /\ fn = "utm_to_latlon"
          /\ origin = BaseOrigin
          /\ utm_string = <<>>
          /\ zone_number \in Zones
          /\ zone_letter \in LetterStrings
          /\ easting \in Eastings
          /\ northing \in Northings

\* the caller invokes parse_utm_coordinate(utm_string, validate)
ParseUtmCoordinate ==
    /\ pc = "call"
    /\ fn = "parse_utm_coordinate"
    /\ \E val \in BOOLEAN :
          /\ validate' = val
          /\ result' = parse_utm_coordinate(utm_string, val)
    /\ pc' = "done"
    /\ UNCHANGED <<fn, string, coord_type, utm_string, zone_number, zone_letter,
                   easting, northing, args, origin, reparsed>>

\* the caller invokes utm_to_latlon(zone_number, zone_letter, easting, northing, validate)
UtmToLatlon ==
    /\ pc = "call"
    /\ fn = "utm_to_latlon"
    /\ \E val \in BOOLEAN :
          /\ validate' = val
          /\ result' = utm_to_latlon(zone_number, zone_letter, easting, northing, val)
    /\ pc' = "done"
    /\ UNCHANGED <<fn, string, coord_type, utm_string, zone_number, zone_letter,
                   easting, northing, args, origin, reparsed>>

\* the caller invokes parse_utm_coordinate_single(utm_string, coord_type, validate)
ParseUtmCoordinateSingle ==
    /\ pc = "call"
    /\ fn = "parse_utm_coordinate_single"
    /\ \E kind \in SingleKinds, val \in BOOLEAN :
          /\ coord_type' = kind
          /\ validate' = val
          /\ result' = parse_utm_coordinate_single(utm_string, kind, val)
    /\ pc' = "done"
    /\ UNCHANGED <<fn, string, utm_string, zone_number, zone_letter, easting,
                   northing, args, origin, reparsed>>

NextUtm == ParseUtmCoordinate \/ ParseUtmCoordinateSingle \/ UtmToLatlon

SpecUtm == InitUtm /\ [][NextUtm]_vars

---------------------------------------------------------------------------
(* What the caller knows of a text it wrote: the value of each numeric     *)
(* field (in hundredths) and the notation, independent of the parser.      *)

FieldValue(f) ==
    CASE f = <<"4", "0">> -> 4000
      [] f = <<"4", "0", ".", "5">> -> 4050
      [] f = <<"7", ",", "5">> -> 750
      [] f = <<"9", "5">> -> 9500
      [] f = <<"1", "8", "5">> -> 18500

HasSeparator(f) == f \in {<<"4", "0", ".", "5">>, <<"7", ",", "5">>}
HasComma(f) == f = <<"7", ",", "5">>

ParseDone == pc = "done" /\ fn = "parse_coordinate"
Written == origin.shape # "none"
NumFields == Len(origin.fields)

\* written with spaces or unit marks between the fields: no maritime layout
GeneralShape == Written /\ origin.shape \in {"plain", "minus", "lead", "dms"}

\* written in one of the four maritime layouts, the hemisphere letter in
\* either case
MaritimeLayout ==
    /\ Written
    /\ origin.shape \in MaritimeShapes
    /\ origin.hemi # <<>>
    /\ \A i \in 1..NumFields : ~HasComma(origin.fields[i])
    /\ NumFields = 2 \/ (NumFields = 3 /\ origin.shape = "mar_deg")

HemiLetter == UpperChar(origin.hemi[1])
HemiIsUpper == origin.hemi[1] \in AsciiUpper

Bound(kind) == IF kind = "latitude" THEN Deg(90) ELSE Deg(180)
InBound(kind, v) == -Bound(kind) <= v /\ v <= Bound(kind)

\* the outcome of the same call without validation
Unvalidated == parse_coordinate(string, coord_type, FALSE)

RangeFieldError(field) ==
    /\ result.tag = "error"
    /\ result.exc = "ValueError"
    /\ result.msg[1] = field
    /\ Contains(result.msg, <<"must", "be", "less", "than", "60">>)

HemisphereError ==
    result.tag = "error" /\ Contains(result.msg, <<"Invalid", "hemisphere">>)
FractionalError ==
    result.tag = "error" /\ Contains(result.msg, <<"Fractional", "degrees", "cannot",
                                                 "be", "combined", "with">>)

---------------------------------------------------------------------------
C3_ValidatorErrorPropagates ==
    (ParseDone /\ GeneralShape /\ validate /\ Unvalidated.tag = "value"
        /\ ~InBound(coord_type, Unvalidated.val[1]))
    => result = _validate_coordinate(Unvalidated, coord_type)

(* C4: sign symmetry.  For a magnitude text X (unsigned: it starts with a  *)
(* digit) and the same call, whenever X followed by N yields a value, X    *)
(* followed by S yields its negation, and the reverse; likewise for E and  *)
(* W.  The letter follows after a space or directly (maritime notation).   *)
Opposite(h) ==
    CASE h = "N" -> "S" [] h = "S" -> "N" [] h = "E" -> "W" [] h = "W" -> "E"
      [] h = "n" -> "s" [] h = "s" -> "n" [] h = "e" -> "w" [] h = "w" -> "e"

MagnitudeThenLetter ==
    /\ Written
    /\ origin.shape \in {"plain", "dms"} \cup MaritimeShapes
    /\ origin.hemi # <<>>
    /\ HemiLetter \in Hemispheres

C4_SignSymmetry ==
    (ParseDone /\ MagnitudeThenLetter /\ result.tag = "value") =>
        parse_coordinate(
            StrArg(Render(origin.shape, origin.fields, <<Opposite(origin.hemi[1])>>)),
            coord_type, validate) = Value(-result.val[1])

\* "40 95 ... N"-like text: a non-zero value with a trailing N after a space
C4_Witness ==
    /\ ParseDone /\ MagnitudeThenLetter
    /\ origin.shape = "plain" /\ origin.hemi = <<"N">> /\ NumFields = 2
    /\ result.tag = "value" /\ result.val[1] > 0

(* C5 as claimed: text whose second numeric field (minutes) or third       *)
(* numeric field (seconds) is 60 or more never yields a value, whatever    *)
(* validate is: parse fails with the range error naming the field.         *)
MinutesTooLarge == NumFields >= 2 /\ FieldValue(origin.fields[2]) >= 6000
SecondsTooLarge == NumFields >= 3 /\ FieldValue(origin.fields[3]) >= 6000

C5_RangeErrorNamesField ==
    (ParseDone /\ Written /\ (MinutesTooLarge \/ SecondsTooLarge)) =>
        IF MinutesTooLarge THEN RangeFieldError("Minutes")
        ELSE RangeFieldError("Seconds")

(* C5 amended: such text never yields a value, whatever validate is.  The  *)
(* failure is the range error naming the field (minutes first), except     *)
(* when the text matches a maritime pattern: there the hemisphere letter   *)
(* and the integral degrees are checked first and their error is reported. *)
MaritimeMatched == MaritimeLayout /\ HemiIsUpper

C5_NeverAValue ==
    (ParseDone /\ Written /\ (MinutesTooLarge \/ SecondsTooLarge)) =>
        /\ result.tag = "error"
        /\ IF MaritimeMatched /\ HemiLetter \notin Hemispheres THEN HemisphereError
           ELSE IF MaritimeMatched /\ FieldValue(origin.fields[1]) % 100 # 0
           THEN FractionalError
           ELSE IF MinutesTooLarge THEN RangeFieldError("Minutes")
           ELSE RangeFieldError("Seconds")

\* a maritime text with fractional degrees and 95 minutes, not validated
C5_Witness ==
    /\ ParseDone /\ MaritimeMatched /\ MinutesTooLarge /\ ~validate
    /\ FieldValue(origin.fields[1]) % 100 # 0
    /\ HemiLetter \in Hemispheres
    /\ FractionalError

(* C6: for every maritime-shaped input the trailing hemisphere letter is   *)
(* checked in either case: a letter other than N, S, E, W fails with the   *)
(* hemisphere error, and a lower-case n/s/e/w is accepted exactly like its *)
(* upper-case form.                                                        *)
WithUpperLetter == StrArg(Render(origin.shape, origin.fields, <<HemiLetter>>))

C6_HemisphereAnyCase ==
    (ParseDone /\ MaritimeLayout) =>
        /\ HemiLetter \notin Hemispheres => HemisphereError
        /\ ~HemiIsUpper => result = parse_coordinate(WithUpperLetter, coord_type, validate)

(* C7: for every maritime-shaped input with a hemisphere letter N/S/E/W in *)
(* either case whose degrees field has a fractional part, parse fails with *)
(* the "fractional degrees cannot be combined with" error.                 *)
C7_FractionalDegreesRejected ==
    (ParseDone /\ MaritimeLayout /\ HemiLetter \in Hemispheres
        /\ FieldValue(origin.fields[1]) % 100 # 0)
    => FractionalError

(* C8 as claimed: in the general tokenizer, exactly two numeric tokens of  *)
(* which more than one holds a decimal separator are rejected with         *)
(* "decimal values in multiple fields not allowed for degrees-minutes      *)
(* format".                                                                *)
TwoDecimalFields ==
    /\ GeneralShape
    /\ NumFields = 2
    /\ HasSeparator(origin.fields[1]) /\ HasSeparator(origin.fields[2])

DecimalFieldsError ==
    result.tag = "error" /\ Contains(result.msg, <<"Decimal", "values", "in",
                                                 "multiple", "fields">>)

ExpectedSign ==
    IF origin.shape = "minus" THEN -1
    ELSE IF origin.hemi # <<>> /\ HemiLetter \in {"S", "W"} THEN -1
    ELSE 1

ExpectedPair ==
    ExpectedSign * (FieldValue(origin.fields[1]) * 3600 + FieldValue(origin.fields[2]) * 60)

---------------------------------------------------------------------------
(* What the caller knows of a grid reference it wrote *)

UtmDone == pc = "done" /\ fn = "parse_utm_coordinate"
DirectDone == pc = "done" /\ fn = "utm_to_latlon"

\* the letters C..W without I and O
BandLetters == AsciiUpper \ {"A", "B", "I", "O", "X", "Y", "Z"}

\* the text is one of the three layouts over its whole length
LayoutWritten ==
    /\ origin.defect = "none"
    /\ ~(origin.layout = 2 /\ origin.prefix)
    /\ origin.letter \in BandLetters

\* utm_to_latlon applied to the fields the text was written from
Transformed(val) == utm_to_latlon(origin.zone, <<origin.letter>>, origin.e, origin.n, val)

ZoneOrLetterError ==
    /\ result.tag = "error" /\ result.exc = "ValueError"
    /\ Contains(result.msg, <<"UTM", "zone">>)

SingleBandLetter(zl) == Len(zl) = 1 /\ UpperChar(zl[1]) \in BandLetters

C9_ZoneAndLetterChecked ==
    DirectDone =>
        (ZoneOrLetterError <=>
            (zone_number \notin 1..60 \/ ~SingleBandLetter(zone_letter)))

(* C10: the three layouts, in any letter case and with surrounding or      *)
(* repeated whitespace, give the same outcome, equal to utm_to_latlon      *)
(* applied to the fields (absent if it fails); a text that is none of the  *)
(* layouts over its whole length yields absent.                            *)
ExpectedUtm ==
    IF ~LayoutWritten \/ Transformed(validate).tag = "error" THEN Absent
    ELSE Transformed(validate)

OtherLayout(l, lw) ==
    UtmRender([origin EXCEPT !.layout = l, !.prefix = (l # 2 /\ @), !.lower = lw])

---------------------------------------------------------------------------
(* C11: with validate, when the converted latitude or longitude is out of  *)
(* range, utm_to_latlon fails with the message "Converted coordinates are  *)
(* outside valid ranges" and not with the validator's own message.         *)
ConvertedOutOfRange ==
    LET raw == utm_to_latlon(zone_number, zone_letter, easting, northing, FALSE)
    IN /\ raw.tag = "value"
       /\ ~InBound("latitude", raw.val[1]) \/ ~InBound("longitude", raw.val[2])

C11_ConvertedRangeMessage ==
    (DirectDone /\ validate /\ ConvertedOutOfRange) =>
        /\ result.tag = "error"
        /\ result.msg = <<"Converted", "coordinates", "are", "outside", "valid",
                          "ranges">>

---------------------------------------------------------------------------
(* str() of the Decimal parse_coordinate returns, and the second call of a *)
(* caller who parses that text again.                                      *)

\* the decimal digits of c >= 0, no leading zeros
RECURSIVE Digits(_)
Digits(c) ==
    IF c < 10 THEN <<DigitChars[c + 1]>>
    ELSE Digits(c \div 10) \o <<DigitChars[(c % 10) + 1]>>

Zeros(k) == [i \in 1..k |-> "0"]

\* c * 10^e written with the fewest digits: c without trailing zeros
RECURSIVE Shortest(_, _)
Shortest(c, e) ==
    IF c # 0 /\ c % 10 = 0 THEN Shortest(c \div 10, e + 1) ELSE [c |-> c, e |-> e]

\* str(Decimal(str(x))) for the float x of the outcome.  The Decimal is built
\* from repr(x), the shortest digits that give x back: positional with at
\* least one fractional digit from 1e-4 on, digits and exponent below; str of
\* the Decimal is positional unless the first digit stands more than six
\* places behind the point, and then "d.dddE-n".  The value is n * 10^-exp
\* units of 1/360000 = 1/(36 * 10^4) = 25/(9 * 10^6) degree; the operator is
\* defined where that is a finite decimal, as every result of a one-field
\* text is.
DecimalStr(value) ==
    LET n == value.val[1]
        a == IF n < 0 THEN -n ELSE n
        short == IF a % 36 = 0 THEN Shortest(a \div 36, -(4 + value.exp))
                 ELSE Shortest((a \div 9) * 25, -(6 + value.exp))
        ds == Digits(short.c)
        leftdigits == short.e + Len(ds)
        sign == IF n < 0 THEN <<"-">> ELSE <<>>
        body ==
            IF short.c = 0 THEN <<"0", ".", "0">>
            ELSE IF short.e >= 0 THEN ds \o Zeros(short.e) \o <<".", "0">>
            ELSE IF leftdigits > 0
            THEN SubSeq(ds, 1, leftdigits) \o <<".">> \o SubSeq(ds, leftdigits + 1, Len(ds))
            ELSE IF leftdigits > -6 THEN <<"0", ".">> \o Zeros(-leftdigits) \o ds
            ELSE <<ds[1]>> \o (IF Len(ds) > 1 THEN <<".">> \o Tail(ds) ELSE <<>>)
                     \o <<"E", "-">> \o Digits(1 - leftdigits)
    IN CASE a % 9 = 0 -> sign \o body

\* plain decimal texts: an optional sign, digits, an optional fraction
IntParts == { <<"0">>, <<"2", "3">>, <<"9", "5">>, <<"1", "8", "5">>, <<"0", "0", "7">> }
CoarseFractions == { <<>>, <<".", "0">>, <<".", "5">>, <<".", "4", "3">>, <<".", "5", "0">> }
FineFractions == {
    <<".", "4", "3", "7", "5">>,
    <<".", "0", "0", "0", "1">>,
    <<".", "0", "0", "0", "0", "1">>,
    <<".", "0", "0", "0", "0", "0", "1">>,
    <<".", "0", "0", "0", "0", "0", "0", "1">>,
    <<".", "0", "0", "0", "0", "0", "1", "0">>,
    <<".", "0", "0", "0", "0", "0", "1", "5">>,
    <<".", "0", "0", "0", "0", "0", "0", "5">> }

PlainDecimals ==
    {sg \o i \o f : sg \in {<<>>, <<"-">>}, i \in IntParts, f \in CoarseFractions}
    \cup {sg \o <<"0">> \o f : sg \in {<<>>, <<"-">>}, f \in FineFractions}

InitStr ==
    /\ pc = "call"
    /\ fn = "parse_coordinate"
    /\ string \in {StrArg(t) : t \in PlainDecimals}
    /\ origin = NoOrigin
    /\ InitIdle

\* the caller invokes parse_coordinate(str(result), coord_type, validate)
ParseStr ==
    /\ pc = "done"
    /\ fn = "parse_coordinate"
    /\ result.tag = "value"
    /\ string' = StrArg(DecimalStr(result))
    /\ reparsed' = parse_coordinate(string', coord_type, validate)
    /\ pc' = "again"
    /\ UNCHANGED <<fn, coord_type, validate, utm_string, zone_number, zone_letter,
                   easting, northing, args, origin, result>>

NextStr == ParseCoordinate \/ ParseStr

SpecStr == InitStr /\ [][NextStr]_vars

(* C12: idempotence.  For every plain decimal text that parse_coordinate   *)
(* accepts, parsing str() of the result again succeeds and gives the same  *)
(* value.                                                                  *)
C12_StrRoundTrip == pc = "again" => reparsed = result

---------------------------------------------------------------------------
(* C13: parse_coordinate returns absent, without an error, for an absent   *)
(* input and for every text that is empty or holds nothing but white       *)
(* space, whatever coord_type and validate are; no other input yields      *)
(* absent: it yields a value or an error.                                  *)
Blank(s) == \A i \in 1..Len(s) : s[i] \in SpaceSet

C13_AbsentIffNothingToParse ==
    ParseDone =>
        (result = Absent <=>
            (string.t = "none" \/ (string.t = "str" /\ Blank(string.s))))

\* a blank and a tabulator, parsed as an unvalidated latitude
C13_Witness ==
    /\ ParseDone /\ string = StrArg(<<" ", "tab">>)
    /\ coord_type = "latitude" /\ ~validate
    /\ result = Absent

---------------------------------------------------------------------------
(* C14: dispatch on the type of the input.  A number (int, float or        *)
(* Decimal) is not parsed as text: it is returned as the Decimal equal to  *)
(* it, after the range check when validate is set.  An input that is       *)
(* neither text, nor a number, nor absent always fails with a ValueError:  *)
(* never with another kind of failure and never with a value.              *)
C14_TypeDispatch ==
    ParseDone =>
        /\ string.t = "num" =>
               IF validate /\ ~InBound(coord_type, string.n * 3600)
               THEN result.tag = "error" /\ result.exc = "ValueError"
               ELSE result = Value(string.n * 3600)
        /\ string.t \in {"bool", "other"} =>
               result.tag = "error" /\ result.exc = "ValueError"

---------------------------------------------------------------------------
(* C15: parse_utm_coordinate_single returns absent exactly when            *)
(* parse_utm_coordinate returns absent for the same text and validate      *)
(* flag; otherwise it returns the longitude of that result when the axis   *)
(* asked for is longitude and the latitude when it is latitude, as the     *)
(* Decimal equal to the component.                                         *)
SingleDone == pc = "done" /\ fn = "parse_utm_coordinate_single"

---------------------------------------------------------------------------
(* Direct calls of to_dec_deg *)

MaxArgs == 4

\* arguments in hundredths: negative, zero, fractional, 60 and more
ArgValues == {-4050, 0, 750, 4000, 6000, 9500, 40000}

InitDeg ==
    /\ pc = "call"
    /\ fn = "to_dec_deg"
    /\ string = NoneArg
    /\ origin = NoOrigin
    /\ coord_type = "coordinate"
    /\ validate = TRUE
    /\ utm_string = <<>>
    /\ zone_number = 0
    /\ zone_letter = <<>>
    /\ easting = 0
    /\ northing = 0
    /\ args \in UNION {[1..k -> ArgValues] : k \in 0..MaxArgs}
    /\ result = NoResult
    /\ reparsed = NoResult

\* the caller invokes to_dec_deg with the positional arguments args
ToDecDeg ==
    /\ pc = "call"
    /\ fn = "to_dec_deg"
    /\ result' = to_dec_deg(args)
    /\ pc' = "done"
    /\ UNCHANGED <<fn, string, coord_type, validate, utm_string, zone_number,
                   zone_letter, easting, northing, args, origin, reparsed>>

NextDeg == ToDecDeg

SpecDeg == InitDeg /\ [][NextDeg]_vars

(* C16: to_dec_deg returns degrees + minutes/60 + seconds/3600 for one,    *)
(* two or three positional values (missing minutes and seconds count as    *)
(* 0), applies no sign and no range check, and fails with the              *)
(* argument-count error for no value and for four or more values.          *)
DegDone == pc = "done" /\ fn = "to_dec_deg"

\* argument i in units of 1/360000 degree, 0 when it is missing
Part(i, units) == IF i <= Len(args) THEN args[i] * units ELSE 0

C16_DegreesMinutesSeconds ==
    DegDone =>
        IF Len(args) \in 1..3
        THEN result = Value(Part(1, 3600) + Part(2, 60) + Part(3, 1))
        ELSE /\ result.tag = "error"
             /\ result.exc = "ValueError"
             /\ result.msg = <<"Invalid", "number", "of", "arguments">>

\* negative degrees with 95 minutes and 7.5 seconds: summed as they are
C16_Witness ==
    /\ DegDone /\ args = <<-4050, 9500, 750>>
    /\ result = Value(-4050 * 3600 + 9500 * 60 + 750)

---------------------------------------------------------------------------
(* C17 as claimed: in the general tokenizer a value is returned only when  *)
(* one, two or three numeric tokens are found; a text without a numeric    *)
(* token is rejected as "not a valid coordinate string" naming the input,  *)
(* and a text with four or more numeric tokens is rejected as a format     *)
(* error (the same message), for every validate setting.                   *)
TokenizerRan == ParseDone /\ string.t = "str" /\ ~Blank(string.s) /\ ~MaritimeMatched

\* the maximal runs of digits of a text without decimal separators
DigitRuns(s) ==
    Cardinality({i \in 1..Len(s) :
                    s[i] \in DigitSet /\ (i = 1 \/ s[i - 1] \notin DigitSet)})

NumTokens == IF Written THEN NumFields ELSE DigitRuns(string.s)

C17_FourTokensFormatError ==
    TokenizerRan =>
        /\ result.tag = "value" => NumTokens \in 1..3
        /\ NumTokens = 0 => result = NotValidString
        /\ NumTokens >= 4 => result = NotValidString

(* C17 amended: a value is returned only for one, two or three tokens and  *)
(* no token gives the "not a valid coordinate string" error.  Four or more *)
(* tokens never give a value: the minutes and seconds are checked first    *)
(* and a second or third token of 60 or more fails with the range error    *)
(* naming the field; otherwise the error is "not a valid coordinate        *)
(* string".                                                                *)
C17_FourTokensRejected ==
    TokenizerRan =>
        /\ result.tag = "value" => NumTokens \in 1..3
        /\ NumTokens = 0 => result = NotValidString
        /\ NumTokens >= 4 =>
               IF MinutesTooLarge THEN RangeFieldError("Minutes")
               ELSE IF SecondsTooLarge THEN RangeFieldError("Seconds")
               ELSE result = NotValidString

\* four fields below 60, not validated: the generic error
C17_Witness ==
    /\ TokenizerRan /\ NumTokens = 4 /\ ~validate
    /\ ~MinutesTooLarge /\ ~SecondsTooLarge
    /\ result = NotValidString

---------------------------------------------------------------------------
(* C18: maritime precedence.  The trimmed text is tried against the four   *)
(* maritime patterns in their order and parse_coordinate commits to the    *)
(* first that matches the whole text: the outcome, value or error, comes   *)
(* from that pattern's branch alone and the general tokenizer is not run;  *)
(* the general tokenizer runs only when none of the four matches.          *)

\* the pattern a maritime text is written for
LayoutPattern ==
    CASE origin.shape = "mar_dash_deg" -> 1
      [] origin.shape = "mar_dash" -> 2
      [] origin.shape \in {"mar_deg", "mar_deg_bare"} /\ NumFields = 2 -> 3
      [] origin.shape = "mar_deg" /\ NumFields = 3 -> 4

Matches(k) == ReMatch(<<>>, maritime_patterns[k], Strip(string.s)).ok

C18_MaritimePrecedence ==
    (ParseDone /\ string.t = "str" /\ ~Blank(string.s)) =>
        IF MaritimeMatched
        THEN /\ Matches(LayoutPattern)
             /\ \A j \in 1..(LayoutPattern - 1) : ~Matches(j)
             /\ result = Maritime(LayoutPattern, Strip(string.s), coord_type, validate)
        ELSE /\ \A k \in 1..Len(maritime_patterns) : ~Matches(k)
             /\ result = General(string.s, coord_type, validate)

\* "40°41'30"X": the fourth pattern's hemisphere error, where the general
\* tokenizer would have returned a value
C18_Witness ==
    /\ ParseDone /\ MaritimeMatched /\ LayoutPattern = 4
    /\ HemisphereError
    /\ General(string.s, coord_type, validate).tag = "value"

---------------------------------------------------------------------------
(* C19: text that has no leading '-' and no cardinal-direction indicator   *)
(* (no N/S/E/W letter, no direction word, no Cyrillic direction letter)    *)
(* never parses to a negative value; unit letters or unit words that end   *)
(* in 's' or 'w', like the trailing 's' for seconds of "15d 55m 20s", do   *)
(* not make the result negative.                                           *)

\* written without a minus sign and without any direction
NoDirection == Written /\ origin.shape # "minus" /\ origin.hemi = <<>>

C19_NoDirectionNonNegative ==
    (ParseDone /\ NoDirection /\ result.tag = "value") => result.val[1] >= 0

\* the unit letter of the seconds is taken for "south"
C19_SecondsLetterNegates ==
    /\ ParseDone /\ NoDirection
    /\ origin.shape = "units" /\ NumFields = 3
    /\ result.tag = "value" /\ result.val[1] < 0

\* without the unit letters no text without a direction is negative
C19_OtherShapesNonNegative ==
    (ParseDone /\ NoDirection /\ origin.shape # "units" /\ result.tag = "value")
        => result.val[1] >= 0

====
